---- MODULE Spec2Model ----
(***************************************************************************)
(* The three tutorial scripts of the repository as one state machine:      *)
(*   "chem"  demonstrations/tutorial_quantum_chemistry.py                  *)
(*   "bond"  demonstrations/tutorial_vqe_bond_dissociation.py              *)
(*   "spin"  demonstrations/tutorial_vqe_spin_sectors.py                   *)
(* Each script is a straight line of statements with one or two loops; pc  *)
(* is the statement the script is about to execute.                        *)
(*                                                                         *)
(* Units.  Lengths are integers in 1e-4 bohr (0.6614 bohr = 6614).         *)
(* Energies are integers in 5e-7 Hartree, so the tolerance 1e-6 Ha is 2    *)
(* and a difference can be below it (0, 1), equal to it (2) or above it.   *)
(*                                                                         *)
(* External collaborators.  The optimizer and the simulator are black      *)
(* boxes: the cost of a parameter vector is any value of Energies, fixed   *)
(* once it has been evaluated (cost_fn is a deterministic function of the  *)
(* parameters).  A parameter vector is identified by the number of         *)
(* optimizer steps that produced it from the run's initial vector.         *)
(***************************************************************************)
EXTENDS Integers, Sequences, FiniteSets

\* ------------------------------------------------------------------ bounds

\* Energies range over -EMax..0 (units of 5e-7 Ha).
EMax == 4

\* Iteration cap of the side-by-side run of the two loop patterns.
PairCap == 3

\* ------------------------------------------------------- program constants

\* 1e-6 Ha, in units of 5e-7 Ha.
conv_tol == 2

\* range(40) of the bond-dissociation loop.
bond_iterations == 40

\* max_iterations of the spin-sectors script.
max_iterations == 100

\* np.arange(0.5, 4.0, 0.1), in 1e-4 bohr.
scan_start == 5000
scan_stop == 40000
scan_step == 1000

\* Convergence threshold 1e-6 Ha of the bond-dissociation loop (5e-7 Ha units).
bond_tol == 2

\* Bond-dissociation script: electrons in the active space, active orbitals.
bond_active_electrons == 2
bond_active_orbitals == 2

\* Spin-sectors script: electrons = 2.
spin_electrons == 2

\* Quantum-chemistry script: electrons, orbitals and the active space of water.
chem_electrons == 10
chem_orbitals == 7
chem_active_electrons == 4
chem_active_orbitals == 4

\* A keyword argument left at its default None.
None == -1

Energies == (0 - EMax)..0

Abs(x) == IF x < 0 THEN 0 - x ELSE x

Range(s) == {s[i] : i \in DOMAIN s}

\* --------------------------------------------------------- pure functions

\* ceil(a / b) for a >= 0, b > 0
CeilDiv(a, b) == (a + b - 1) \div b

\* np.arange(start, stop, step): start + i*step for i < ceil((stop-start)/step)
arange(start, stop, step) ==
    [i \in 1..CeilDiv(stop - start, step) |-> start + (i - 1) * step]

\* Atomic number of an element.
AtomicNumber(sym) == IF sym = "O" THEN 8 ELSE 1

\* Number of basis functions (spatial orbitals) of an element in the minimal
\* basis set: 1s for hydrogen; 1s, 2s and three 2p for oxygen.
MinimalBasis(sym) == IF sym = "O" THEN 5 ELSE 1

RECURSIVE SumSeq(_)
SumSeq(s) == IF s = <<>> THEN 0 ELSE Head(s) + SumSeq(Tail(s))

\* Number of electrons of a molecule with the given net charge.
NElectrons(syms, charge) ==
    SumSeq([i \in DOMAIN syms |-> AtomicNumber(syms[i])]) - charge

\* Number of molecular orbitals of a molecule in the minimal basis.
NOrbitals(syms) == SumSeq([i \in DOMAIN syms |-> MinimalBasis(syms[i])])

\* [a, a+1, ..., b-1] as a sequence: list(range(a, b))
ListRange(a, b) == [i \in 1..(IF b > a THEN b - a ELSE 0) |-> a + i - 1]

NCore_unpaired(electrons, active_electrons) ==
    IF active_electrons = None THEN 0 ELSE electrons - active_electrons

\* Number of core orbitals: each is occupied by two of the electrons that
\* are not active.
NCore(electrons, active_electrons) ==
    IF active_electrons = None THEN 0 ELSE (electrons - active_electrons) \div 2

\* qchem.active_space: core orbitals are always doubly occupied, the active
\* orbitals follow them, the remaining (external) orbitals are never occupied.
active_space(electrons, orbitals, active_electrons, active_orbitals) ==
    LET ncore == NCore(electrons, active_electrons)
    IN  [core   |-> ListRange(0, ncore),
         active |-> IF active_orbitals = None
                    THEN ListRange(ncore, orbitals)
                    ELSE ListRange(ncore, ncore + active_orbitals)]

NQubits_spatial(active) == Len(active)

\* The number of qubits is the number of active spin-orbitals.
NQubits(active) == 2 * Len(active)

\* qchem.molecular_hamiltonian: the Hamiltonian is an opaque value determined
\* by the structure and the active space it was built from.
molecular_hamiltonian(syms, coords, charge, active_electrons, active_orbitals) ==
    LET space == active_space(NElectrons(syms, charge), NOrbitals(syms),
                              active_electrons, active_orbitals)
    IN  [H |-> [symbols |-> syms, coordinates |-> coords,
                core |-> space.core, active |-> space.active],
         qubits |-> NQubits(space.active)]

Sz2_flipped(i) == IF i % 2 = 0 THEN 0 - 1 ELSE 1

\* Twice the spin projection of a spin-orbital: even indices are spin-up,
\* odd indices spin-down.
Sz2(i) == IF i % 2 = 0 THEN 1 ELSE 0 - 1

\* qchem.hf_state: the first `electrons` spin-orbitals are occupied.
hf_state(electrons, nqubits) == [i \in 1..nqubits |-> IF i <= electrons THEN 1 ELSE 0]

SingleExcitations_unfiltered(electrons, nqubits, delta_sz) ==
    (0..(electrons - 1)) \X (electrons..(nqubits - 1))

\* Single excitations [r, p]: an electron is annihilated in the occupied
\* spin-orbital r and created in the unoccupied spin-orbital p, changing the
\* spin projection by delta_sz.
SingleExcitations(electrons, nqubits, delta_sz) ==
    {e \in (0..(electrons - 1)) \X (electrons..(nqubits - 1)) :
        Sz2(e[2]) - Sz2(e[1]) = 2 * delta_sz}

\* Double excitations [s, r, q, p]: s < r occupied, q < p unoccupied.
DoubleExcitations(electrons, nqubits, delta_sz) ==
    {e \in (0..(electrons - 1)) \X (0..(electrons - 1))
              \X (electrons..(nqubits - 1)) \X (electrons..(nqubits - 1)) :
        /\ e[1] < e[2]
        /\ e[3] < e[4]
        /\ Sz2(e[4]) + Sz2(e[3]) - Sz2(e[2]) - Sz2(e[1]) = 2 * delta_sz}

\* qchem.excitations(electrons, qubits, delta_sz)
excitations(electrons, nqubits, delta_sz) ==
    [singles |-> SingleExcitations(electrons, nqubits, delta_sz),
     doubles |-> DoubleExcitations(electrons, nqubits, delta_sz)]

\* ---------------------------------------------------- the trial circuit

circuit_spin_flip ==
    << [gate |-> "PauliX", wires |-> <<0>>],
       [gate |-> "PauliX", wires |-> <<1>>],
       [gate |-> "DoubleExcitation", wires |-> <<0, 1, 2, 3>>],
       [gate |-> "SingleExcitation", wires |-> <<1, 2>>],
       [gate |-> "SingleExcitation", wires |-> <<0, 3>>] >>

circuit_one_single ==
    << [gate |-> "PauliX", wires |-> <<0>>],
       [gate |-> "PauliX", wires |-> <<1>>],
       [gate |-> "DoubleExcitation", wires |-> <<0, 1, 2, 3>>],
       [gate |-> "SingleExcitation", wires |-> <<0, 2>>] >>

\* def circuit(params, wires) of the bond-dissociation script: the gates in
\* the order they are applied.
circuit ==
    << [gate |-> "PauliX", wires |-> <<0>>],
       [gate |-> "PauliX", wires |-> <<1>>],
       [gate |-> "DoubleExcitation", wires |-> <<0, 1, 2, 3>>],
       [gate |-> "SingleExcitation", wires |-> <<0, 2>>],
       [gate |-> "SingleExcitation", wires |-> <<1, 3>>] >>

\* Occupation of wire w (wires count from 0) in the basis state s.
Occ(s, w) == s[w + 1]

\* qml.PauliX(w) on a basis state: the occupation of wire w is flipped.
PauliX(s, w) == [i \in DOMAIN s |-> IF i = w + 1 THEN 1 - s[i] ELSE s[i]]

\* The basis states a particle-hole excitation couples s to: the electrons
\* of the occupied wires `from` move to the empty wires `to`.
Move(s, from, to) ==
    IF (\A w \in from : Occ(s, w) = 1) /\ (\A w \in to : Occ(s, w) = 0)
    THEN {[i \in DOMAIN s |-> IF (i - 1) \in from THEN 0
                              ELSE IF (i - 1) \in to THEN 1 ELSE s[i]]}
    ELSE {}

\* Basis states with non-zero amplitude after a gate with a generic angle,
\* given those before it.  SingleExcitation rotates in the subspace
\* {|01>, |10>} of its two wires, DoubleExcitation in {|1100>, |0011>} of
\* its four wires.
GateSupport(g, S) ==
    IF g.gate = "PauliX"
    THEN {PauliX(s, g.wires[1]) : s \in S}
    ELSE IF g.gate = "SingleExcitation"
    THEN S \cup UNION {Move(s, {g.wires[1]}, {g.wires[2]})
                          \cup Move(s, {g.wires[2]}, {g.wires[1]}) : s \in S}
    ELSE S \cup UNION {Move(s, {g.wires[1], g.wires[2]}, {g.wires[3], g.wires[4]})
                          \cup Move(s, {g.wires[3], g.wires[4]}, {g.wires[1], g.wires[2]})
                          : s \in S}

RECURSIVE Support(_, _)
\* Basis states with non-zero amplitude after the gates, applied in order.
Support(gates, S) ==
    IF gates = <<>> THEN S
    ELSE Support(Tail(gates), GateSupport(Head(gates), S))

\* The gates of the circuit of one kind.
Gates(kind) == {circuit[i] : i \in {j \in DOMAIN circuit : circuit[j].gate = kind}}

\* The state the circuit's PauliX gates prepare from |0000>.
Prepared ==
    Support(SelectSeq(circuit, LAMBDA g : g.gate = "PauliX"), {<<0, 0, 0, 0>>})

\* ------------------------------------------------------------------ state

VARIABLES
    script,       \* the script that is running: "chem", "bond", "spin" or "pair"
    pc,           \* the statement about to be executed
    symbols,      \* atomic symbols of the current structure
    coordinates,  \* flat coordinates of the current structure
    H,            \* the Hamiltonian bound to H
    qubit_hamiltonian, \* chem script: the Hamiltonian returned by decompose
    qubits,       \* qubit count returned with H
    hams,         \* every Hamiltonian constructed so far, in order
    hf,           \* spin script: the Hartree-Fock occupation vector
    singles,      \* single excitations
    doubles,      \* double excitations
    core,         \* core orbitals (chem)
    active,       \* active orbitals (chem)
    sector,       \* spin script: "ground" or "excited" run
    scan,         \* bond script: number of geometries of the scan started
    n,            \* loop variable of the optimization loop (-1: not started)
    params,       \* parameter vector (params / theta): optimizer steps applied
    nparams,      \* length of the parameter vector
    cost,         \* cost_fn at the current parameter vector
    energy,       \* energy
    prev_energy,  \* prev_energy
    decreasing,   \* history: the energies of this run are strictly decreasing
    broke,        \* history: the loop of this run was left by break
    vqe_energy,   \* bond script: vqe_energy, each entry tagged by its r_HH
    r,            \* bond script: the array r of the plot
    tape,         \* pair run: the costs of the successive parameter vectors
    bond_out      \* pair run: steps and final energy of the bond loop

vars == <<script, pc, symbols, coordinates, H, qubit_hamiltonian, qubits, hams,
          hf, singles, doubles,
          core, active, sector, scan, n, params, nparams, cost, energy,
          prev_energy, decreasing, broke, vqe_energy, r, tape, bond_out>>

structure_vars == <<symbols, coordinates>>
ham_vars == <<H, qubit_hamiltonian, qubits, hams>>
exc_vars == <<hf, singles, doubles>>
space_vars == <<core, active>>
loop_vars == <<n, params, nparams, cost, energy, prev_energy, decreasing,
               broke>>
pair_vars == <<tape, bond_out>>

NoH == [symbols |-> <<>>, coordinates |-> <<>>, core |-> <<>>, active |-> <<>>]

Init ==
    /\ script \in {"chem", "bond", "spin"}
    /\ pc = "start"
    /\ symbols = <<>>
    /\ coordinates = <<>>
    /\ H = NoH
    /\ qubit_hamiltonian = NoH
    /\ qubits = 0
    /\ hams = <<>>
    /\ hf = <<>>
    /\ singles = {}
    /\ doubles = {}
    /\ core = <<>>
    /\ active = <<>>
    /\ sector = "ground"
    /\ scan = 0
    /\ n = 0 - 1
    /\ params = 0
    /\ nparams = 0
    /\ cost = 0
    /\ energy = 0
    /\ prev_energy = 0
    /\ decreasing = TRUE
    /\ broke = FALSE
    /\ vqe_energy = <<>>
    /\ r = <<>>
    /\ tape = <<>>
    /\ bond_out = [steps |-> 0, energy |-> 0]

\* ------------------------------------------------- the optimization loops

\* The cost of the parameter vector reached after k optimizer steps: any
\* energy, or the tape's entry when the run is driven by a tape.
CostOf(k) == IF tape = <<>> THEN Energies ELSE {tape[k + 1]}

BondConverged_strict(e, prev) == Abs(e - prev) < bond_tol - 1

\* Bond script: if np.abs(energy - prev_energy) < 1e-6: break
BondConverged(e, prev) == Abs(e - prev) < bond_tol

SpinConverged_strict(e, prev) == Abs(e - prev) < conv_tol - 1

\* Spin script: conv = np.abs(energy - prev_energy); if conv <= conv_tol: break
SpinConverged(e, prev) == Abs(e - prev) <= conv_tol

InRange_inclusive(k, cap) == 0 <= k /\ k <= cap

\* k in range(cap)
InRange(k, cap) == 0 <= k /\ k < cap

\* The cap of the loop of the running script.
Cap == IF script = "bond" THEN bond_iterations ELSE max_iterations

BondLoopInit_noreset ==
    /\ params' = 0
    /\ nparams' = 3
    /\ \E c \in CostOf(0) : cost' = c
    /\ prev_energy' = energy
    /\ n' = 0 - 1
    /\ decreasing' = TRUE
    /\ broke' = FALSE
    /\ UNCHANGED energy

\* Bond script: params = np.zeros(3); prev_energy = 0.0
BondLoopInit ==
    /\ params' = 0
    /\ nparams' = 3
    /\ \E c \in CostOf(0) : cost' = c
    /\ prev_energy' = 0
    /\ n' = 0 - 1
    /\ decreasing' = TRUE
    /\ broke' = FALSE
    /\ UNCHANGED energy

\* Spin script: theta = np.random.normal(0, np.pi, len(singles) + len(doubles))
SpinLoopInit ==
    /\ params' = 0
    /\ nparams' = Cardinality(singles) + Cardinality(doubles)
    /\ \E c \in CostOf(0) : cost' = c
    /\ n' = 0 - 1
    /\ decreasing' = TRUE
    /\ broke' = FALSE
    /\ UNCHANGED <<energy, prev_energy>>

\* One iteration of the bond-dissociation loop `for n in range(cap)`:
\* step_and_cost returns the new parameters and the cost of the OLD ones.
BondLoopBody(cap, exit_pc) ==
    /\ pc = "loop"
    /\ InRange(n + 1, cap)
    /\ \E c \in CostOf(params + 1) :
        /\ n' = n + 1
        /\ params' = params + 1
        /\ cost' = c
        /\ energy' = cost
        /\ decreasing' = (decreasing /\ (n + 1 = 0 \/ cost < energy))
        /\ broke' = BondConverged(cost, prev_energy)
        /\ IF BondConverged(cost, prev_energy)
           THEN pc' = exit_pc /\ prev_energy' = prev_energy
           ELSE pc' = "loop" /\ prev_energy' = cost
    /\ UNCHANGED nparams

\* One iteration of a spin-sectors loop `for n in range(cap)`: prev_energy is
\* the cost of the old parameters, energy = cost_fn(theta) that of the new.
SpinLoopBody(cap, exit_pc) ==
    /\ pc = "loop"
    /\ InRange(n + 1, cap)
    /\ \E c \in CostOf(params + 1) :
        /\ n' = n + 1
        /\ params' = params + 1
        /\ prev_energy' = cost
        /\ cost' = c
        /\ energy' = c
        /\ decreasing' = (decreasing /\ c < cost)
        /\ broke' = SpinConverged(c, cost)
        /\ pc' = IF SpinConverged(c, cost) THEN exit_pc ELSE "loop"
    /\ UNCHANGED nparams

LoopExhausted_skip(cap, exit_pc) ==
    /\ pc = "loop"
    /\ ~InRange(n + 1, cap)
    /\ pc' = IF exit_pc = "append" THEN "geometry" ELSE exit_pc
    /\ UNCHANGED loop_vars

\* The for statement finds range(cap) exhausted.
LoopExhausted(cap, exit_pc) ==
    /\ pc = "loop"
    /\ ~InRange(n + 1, cap)
    /\ pc' = exit_pc
    /\ UNCHANGED loop_vars

\* --------------------------------- tutorial_vqe_bond_dissociation.py

\* The geometries of the scan.
scan_r == arange(scan_start, scan_stop, scan_step)

BondCoordinates_short(r_HH) == <<0, 0, 0, 0, r_HH>>

BondCoordinates_fixed(r_HH) == <<0, 0, 0, 0, 0, scan_start>>

\* np.array([0.0, 0.0, 0.0, 0.0, 0.0, r_HH])
BondCoordinates(r_HH) == <<0, 0, 0, 0, 0, r_HH>>

\* r_HH of the geometry being treated.
r_HH == scan_r[scan]

BondStart ==
    /\ script = "bond" /\ pc = "start"
    /\ vqe_energy' = <<>>
    /\ pc' = "geometry"
    /\ UNCHANGED <<script, structure_vars, ham_vars, exc_vars, space_vars,
                   sector, scan, loop_vars, r, pair_vars>>

\* for r_HH in np.arange(0.5, 4.0, 0.1): symbols, coordinates = ...
BondGeometry ==
    /\ script = "bond" /\ pc = "geometry"
    /\ scan < Len(scan_r)
    /\ scan' = scan + 1
    /\ symbols' = <<"H", "H">>
    /\ coordinates' = BondCoordinates(scan_r[scan + 1])
    /\ pc' = "hamiltonian"
    /\ UNCHANGED <<script, ham_vars, exc_vars, space_vars, sector, loop_vars,
                   vqe_energy, r, pair_vars>>

\* H, qubits = qchem.molecular_hamiltonian(symbols, coordinates, ...)
BondHamiltonian ==
    /\ script = "bond" /\ pc = "hamiltonian"
    /\ LET out == molecular_hamiltonian(symbols, coordinates, 0,
                      bond_active_electrons, bond_active_orbitals)
       IN  /\ H' = out.H
           /\ qubits' = out.qubits
           /\ hams' = Append(hams, out.H)
    /\ pc' = "excitations"
    /\ UNCHANGED <<script, qubit_hamiltonian, structure_vars, exc_vars, space_vars, sector, scan,
                   loop_vars, vqe_energy, r, pair_vars>>

\* singles, doubles = qchem.excitations(active_electrons, active_orbitals * 2)
BondExcitations ==
    /\ script = "bond" /\ pc = "excitations"
    /\ LET out == excitations(bond_active_electrons, bond_active_orbitals * 2, 0)
       IN  singles' = out.singles /\ doubles' = out.doubles
    /\ pc' = "init"
    /\ UNCHANGED <<script, hf, structure_vars, ham_vars, space_vars, sector, scan,
                   loop_vars, vqe_energy, r, pair_vars>>

\* dev, cost_fn, opt; params = np.zeros(3); prev_energy = 0.0
BondInit ==
    /\ script = "bond" /\ pc = "init"
    /\ BondLoopInit
    /\ pc' = "loop"
    /\ UNCHANGED <<script, structure_vars, ham_vars, exc_vars, space_vars,
                   sector, scan, vqe_energy, r, pair_vars>>

BondIteration ==
    /\ script = "bond"
    /\ BondLoopBody(bond_iterations, "append")
    /\ UNCHANGED <<script, structure_vars, ham_vars, exc_vars, space_vars,
                   sector, scan, vqe_energy, r, pair_vars>>

BondLoopEnd ==
    /\ script = "bond"
    /\ LoopExhausted(bond_iterations, "append")
    /\ UNCHANGED <<script, structure_vars, ham_vars, exc_vars, space_vars,
                   sector, scan, vqe_energy, r, pair_vars>>

\* vqe_energy.append(energy): the entry is the energy of the run at r_HH.
BondAppend ==
    /\ script = "bond" /\ pc = "append"
    /\ vqe_energy' = Append(vqe_energy, r_HH)
    /\ pc' = "geometry"
    /\ UNCHANGED <<script, structure_vars, ham_vars, exc_vars, space_vars,
                   sector, scan, loop_vars, r, pair_vars>>

\* The scan is over: r = np.arange(0.5, 4.0, 0.1)
BondScanEnd ==
    /\ script = "bond" /\ pc = "geometry"
    /\ scan >= Len(scan_r)
    /\ r' = arange(scan_start, scan_stop, scan_step)
    /\ pc' = "plot"
    /\ UNCHANGED <<script, structure_vars, ham_vars, exc_vars, space_vars,
                   sector, scan, loop_vars, vqe_energy, pair_vars>>

\* fig, ax = plt.subplots(); ax.plot(r, vqe_energy, ...); plt.show()
BondPlot ==
    /\ script = "bond" /\ pc = "plot"
    /\ pc' = "done"
    /\ UNCHANGED <<script, structure_vars, ham_vars, exc_vars, space_vars,
                   sector, scan, loop_vars, vqe_energy, r, pair_vars>>

BondNext ==
    \/ BondStart
    \/ BondGeometry
    \/ BondHamiltonian
    \/ BondExcitations
    \/ BondInit
    \/ BondIteration
    \/ BondLoopEnd
    \/ BondAppend
    \/ BondScanEnd
    \/ BondPlot

\* --------------------------------------- tutorial_vqe_spin_sectors.py

\* symbols = ["H", "H"]; coordinates = np.array([0, 0, -0.6614, 0, 0, 0.6614])
SpinStart ==
    /\ script = "spin" /\ pc = "start"
    /\ symbols' = <<"H", "H">>
    /\ coordinates' = <<0, 0, 0 - 6614, 0, 0, 6614>>
    /\ pc' = "hamiltonian"
    /\ UNCHANGED <<script, ham_vars, exc_vars, space_vars, sector, scan,
                   loop_vars, vqe_energy, r, pair_vars>>

\* H, qubits = qml.qchem.molecular_hamiltonian(symbols, coordinates)
SpinHamiltonian ==
    /\ script = "spin" /\ pc = "hamiltonian"
    /\ LET out == molecular_hamiltonian(symbols, coordinates, 0, None, None)
       IN  /\ H' = out.H
           /\ qubits' = out.qubits
           /\ hams' = Append(hams, out.H)
    /\ pc' = "spin2"
    /\ UNCHANGED <<script, qubit_hamiltonian, structure_vars, exc_vars,
                   space_vars, sector, scan, loop_vars, vqe_energy, r, pair_vars>>

\* electrons = 2; S2 = qml.qchem.spin2(electrons, qubits): the total-spin
\* observable, an opaque value that no later statement changes.
SpinSpin2 ==
    /\ script = "spin" /\ pc = "spin2"
    /\ pc' = "hf_state"
    /\ UNCHANGED <<script, structure_vars, ham_vars, exc_vars, space_vars,
                   sector, scan, loop_vars, vqe_energy, r, pair_vars>>

\* hf = qml.qchem.hf_state(electrons, qubits)
SpinHfState ==
    /\ script = "spin" /\ pc = "hf_state"
    /\ hf' = hf_state(spin_electrons, qubits)
    /\ pc' = "excitations"
    /\ UNCHANGED <<script, structure_vars, ham_vars, singles, doubles,
                   space_vars, sector, scan, loop_vars, vqe_energy, r, pair_vars>>

\* delta_sz of the run: 0 for the ground state, 1 for the excited state.
delta_sz == IF sector = "ground" THEN 0 ELSE 1

\* singles, doubles = qml.qchem.excitations(electrons, qubits, delta_sz=...)
SpinExcitations ==
    /\ script = "spin" /\ pc = "excitations"
    /\ LET out == excitations(spin_electrons, qubits, delta_sz)
       IN  singles' = out.singles /\ doubles' = out.doubles
    /\ pc' = "init"
    /\ UNCHANGED <<script, hf, structure_vars, ham_vars, space_vars, sector, scan,
                   loop_vars, vqe_energy, r, pair_vars>>

\* circuit, cost_fn, S2_exp_value; np.random.seed(0); theta = ...
SpinInit ==
    /\ script = "spin" /\ pc = "init"
    /\ SpinLoopInit
    /\ pc' = "loop"
    /\ UNCHANGED <<script, structure_vars, ham_vars, exc_vars, space_vars,
                   sector, scan, vqe_energy, r, pair_vars>>

SpinIteration ==
    /\ script = "spin"
    /\ SpinLoopBody(max_iterations, "report")
    /\ UNCHANGED <<script, structure_vars, ham_vars, exc_vars, space_vars,
                   sector, scan, vqe_energy, r, pair_vars>>

SpinLoopEnd ==
    /\ script = "spin"
    /\ LoopExhausted(max_iterations, "report")
    /\ UNCHANGED <<script, structure_vars, ham_vars, exc_vars, space_vars,
                   sector, scan, vqe_energy, r, pair_vars>>

\* print the final energy and parameters; the excited-state part follows the
\* ground-state part.
SpinReport ==
    /\ script = "spin" /\ pc = "report"
    /\ IF sector = "ground"
       THEN sector' = "excited" /\ pc' = "excitations"
       ELSE sector' = sector /\ pc' = "done"
    /\ UNCHANGED <<script, structure_vars, ham_vars, exc_vars, space_vars,
                   scan, loop_vars, vqe_energy, r, pair_vars>>

SpinNext ==
    \/ SpinStart
    \/ SpinHamiltonian
    \/ SpinSpin2
    \/ SpinHfState
    \/ SpinExcitations
    \/ SpinInit
    \/ SpinIteration
    \/ SpinLoopEnd
    \/ SpinReport

\* ---------------------------------------- tutorial_quantum_chemistry.py

\* The atoms of the structure file h2o.xyz: the water molecule.
h2o_xyz ==
    << [symbol |-> "H", xyz |-> <<0 - 399, 0 - 38, 0>>],
       [symbol |-> "O", xyz |-> <<15780, 8540, 0>>],
       [symbol |-> "H", xyz |-> <<27909, 0 - 5159, 0>>] >>

\* qchem.read_structure: the symbols, and the coordinates of all atoms in one
\* flat array.
read_structure(file) ==
    [symbols     |-> [i \in 1..Len(file) |-> file[i].symbol],
     coordinates |-> [k \in 1..(3 * Len(file)) |->
                        file[((k - 1) \div 3) + 1].xyz[((k - 1) % 3) + 1]]]

\* symbols = ["H", "O", "H"]; coordinates = np.array([...])
ChemStart ==
    /\ script = "chem" /\ pc = "start"
    /\ symbols' = <<"H", "O", "H">>
    /\ coordinates' = <<0 - 399, 0 - 38, 0, 15780, 8540, 0, 27909, 0 - 5159, 0>>
    /\ pc' = "read"
    /\ UNCHANGED <<script, ham_vars, exc_vars, space_vars, sector, scan,
                   loop_vars, vqe_energy, r, pair_vars>>

\* symbols, coordinates = qchem.read_structure("h2o.xyz")
ChemRead ==
    /\ script = "chem" /\ pc = "read"
    /\ LET out == read_structure(h2o_xyz)
       IN  symbols' = out.symbols /\ coordinates' = out.coordinates
    /\ pc' = "decompose"
    /\ UNCHANGED <<script, ham_vars, exc_vars, space_vars, sector, scan,
                   loop_vars, vqe_energy, r, pair_vars>>

\* hf_file = qchem.meanfield(symbols, coordinates)
\* qubit_hamiltonian = qchem.decompose(hf_file, mapping="jordan_wigner")
ChemDecompose ==
    /\ script = "chem" /\ pc = "decompose"
    /\ LET out == molecular_hamiltonian(symbols, coordinates, 0, None, None)
       IN  /\ qubit_hamiltonian' = out.H
           /\ hams' = Append(hams, out.H)
    /\ pc' = "hamiltonian"
    /\ UNCHANGED <<script, H, qubits, structure_vars, exc_vars, space_vars,
                   sector, scan, loop_vars, vqe_energy, r, pair_vars>>

\* H, qubits = qchem.molecular_hamiltonian(symbols, coordinates)
ChemHamiltonian ==
    /\ script = "chem" /\ pc = "hamiltonian"
    /\ LET out == molecular_hamiltonian(symbols, coordinates, 0, None, None)
       IN  /\ H' = out.H
           /\ qubits' = out.qubits
           /\ hams' = Append(hams, out.H)
    /\ pc' = "active_space"
    /\ UNCHANGED <<script, qubit_hamiltonian, structure_vars, exc_vars,
                   space_vars, sector, scan, loop_vars, vqe_energy, r, pair_vars>>

\* core, active = qchem.active_space(electrons, orbitals, active_electrons=4,
\*                                   active_orbitals=4)
ChemActiveSpace ==
    /\ script = "chem" /\ pc = "active_space"
    /\ LET out == active_space(chem_electrons, chem_orbitals,
                               chem_active_electrons, chem_active_orbitals)
       IN  core' = out.core /\ active' = out.active
    /\ pc' = "hamiltonian_active"
    /\ UNCHANGED <<script, structure_vars, ham_vars, exc_vars, sector, scan,
                   loop_vars, vqe_energy, r, pair_vars>>

\* H, qubits = qchem.molecular_hamiltonian(symbols, coordinates, charge=charge,
\*     mult=multiplicity, basis=basis_set, active_electrons=4, active_orbitals=4)
ChemActiveHamiltonian ==
    /\ script = "chem" /\ pc = "hamiltonian_active"
    /\ LET out == molecular_hamiltonian(symbols, coordinates, 0,
                      chem_active_electrons, chem_active_orbitals)
       IN  /\ H' = out.H
           /\ qubits' = out.qubits
           /\ hams' = Append(hams, out.H)
    /\ pc' = "done"
    /\ UNCHANGED <<script, qubit_hamiltonian, structure_vars, exc_vars,
                   space_vars, sector, scan, loop_vars, vqe_energy, r, pair_vars>>

ChemNext ==
    \/ ChemStart
    \/ ChemRead
    \/ ChemDecompose
    \/ ChemHamiltonian
    \/ ChemActiveSpace
    \/ ChemActiveHamiltonian

\* ------------------------------------------------ failing external calls

\* The statements of a script that call into an external library.
CallSites ==
    IF script = "bond"
    THEN {"hamiltonian", "excitations", "init", "loop", "plot"}
    ELSE IF script = "spin"
    THEN {"hamiltonian", "spin2", "hf_state", "excitations", "init", "loop"}
    ELSE IF script = "chem"
    THEN {"read", "decompose", "hamiltonian", "active_space",
          "hamiltonian_active"}
    ELSE {}

\* The statement about to be executed makes an external call.
AtCall ==
    /\ pc \in CallSites
    /\ pc = "loop" => InRange(n + 1, Cap)

Fail_rerun ==
    \/ /\ AtCall
       /\ pc' = "failed"
       /\ UNCHANGED <<script, structure_vars, ham_vars, exc_vars, space_vars,
                      sector, scan, loop_vars, vqe_energy, r, pair_vars>>
    \/ /\ pc = "failed"
       /\ pc' = "start"
       /\ UNCHANGED <<script, structure_vars, ham_vars, exc_vars, space_vars,
                      sector, scan, loop_vars, vqe_energy, r, pair_vars>>

\* An external call raises.  No statement of the scripts is inside a try
\* block, so the exception ends the script: the call's assignment does not
\* happen and no later statement is executed.
Fail ==
    /\ AtCall
    /\ pc' = "failed"
    /\ UNCHANGED <<script, structure_vars, ham_vars, exc_vars, space_vars,
                   sector, scan, loop_vars, vqe_energy, r, pair_vars>>

Next == BondNext \/ SpinNext \/ ChemNext \/ Fail

Spec == Init /\ [][Next]_vars

\* ------------------- the two loop patterns driven by the same optimizer

\* All tapes: the costs of the initial parameters and of the parameters after
\* each of up to PairCap optimizer steps.
Tapes == [1..(PairCap + 1) -> Energies]

PairInit ==
    /\ script = "pair"
    /\ pc = "start"
    /\ tape \in Tapes
    /\ sector = "bond"
    /\ symbols = <<>>
    /\ coordinates = <<>>
    /\ H = NoH
    /\ qubit_hamiltonian = NoH
    /\ qubits = 0
    /\ hams = <<>>
    /\ hf = <<>>
    /\ singles = excitations(spin_electrons, 4, 0).singles
    /\ doubles = excitations(spin_electrons, 4, 0).doubles
    /\ core = <<>>
    /\ active = <<>>
    /\ scan = 0
    /\ n = 0 - 1
    /\ params = 0
    /\ nparams = 0
    /\ cost = 0
    /\ energy = 0
    /\ prev_energy = 0
    /\ decreasing = TRUE
    /\ broke = FALSE
    /\ vqe_energy = <<>>
    /\ r = <<>>
    /\ bond_out = [steps |-> 0, energy |-> 0]

pair_frame == <<script, structure_vars, ham_vars, exc_vars, space_vars, scan,
                vqe_energy, r, tape>>

\* The bond-dissociation loop starts on the tape.
PairBondInit ==
    /\ script = "pair" /\ pc = "start"
    /\ BondLoopInit
    /\ pc' = "loop"
    /\ UNCHANGED <<pair_frame, sector, bond_out>>

PairBondIteration ==
    /\ script = "pair" /\ sector = "bond"
    /\ BondLoopBody(PairCap, "bond_done")
    /\ UNCHANGED <<pair_frame, sector, bond_out>>

PairBondLoopEnd ==
    /\ script = "pair" /\ sector = "bond"
    /\ LoopExhausted(PairCap, "bond_done")
    /\ UNCHANGED <<pair_frame, sector, bond_out>>

\* The bond loop's step count and final energy are kept, and the spin-sectors
\* loop starts on the same tape.
PairSpinInit ==
    /\ script = "pair" /\ pc = "bond_done"
    /\ bond_out' = [steps |-> params, energy |-> energy]
    /\ SpinLoopInit
    /\ sector' = "spin"
    /\ pc' = "loop"
    /\ UNCHANGED pair_frame

PairSpinIteration ==
    /\ script = "pair" /\ sector = "spin"
    /\ SpinLoopBody(PairCap, "done")
    /\ UNCHANGED <<pair_frame, sector, bond_out>>

PairSpinLoopEnd ==
    /\ script = "pair" /\ sector = "spin"
    /\ LoopExhausted(PairCap, "done")
    /\ UNCHANGED <<pair_frame, sector, bond_out>>

PairNext ==
    \/ PairBondInit
    \/ PairBondIteration
    \/ PairBondLoopEnd
    \/ PairSpinInit
    \/ PairSpinIteration
    \/ PairSpinLoopEnd

SpecPair == PairInit /\ [][PairNext]_vars

\* ----------------------------------------------------------------- claims

\* An iteration of an optimization loop has just been executed.
Iterated == pc = "loop" /\ n' = n + 1

\* The iteration just executed found a difference below the tolerance between
\* two consecutive energies of the run.  Bond loop: energy' is the cost before
\* this step and the old prev_energy that of the iteration before (from the
\* second iteration on).  Spin loops: prev_energy' and energy' are the costs
\* before and after this step.
ConsecutiveBelow ==
    \/ script = "bond" /\ n' >= 1 /\ Abs(energy' - prev_energy) < conv_tol
    \/ script = "spin" /\ Abs(energy' - prev_energy') < conv_tol

\* C1: in a run whose energies are strictly decreasing, an iteration that
\* finds the difference of consecutive energies below the tolerance is the
\* last one: the loop is left in that very iteration, and parameters are
\* stepped only by loop iterations, so no optimizer step follows it.
C1_StopsWhenConverged ==
    [][ /\ (Iterated /\ decreasing' /\ ConsecutiveBelow) => pc' # "loop"
        /\ params' > params => Iterated ]_vars

\* C1 witness: a bond-dissociation run with strictly decreasing energies that
\* left its loop after the first iteration on a difference below the
\* tolerance between two consecutive energies.
C1_Witness ==
    /\ script = "bond" /\ pc = "append"
    /\ decreasing /\ n >= 1
    /\ energy < prev_energy
    /\ Abs(energy - prev_energy) < conv_tol

\* C2: whatever energies the optimizer returns, a run applies at most 40
\* (bond dissociation) or 100 (spin sectors) optimizer steps, and the loop
\* terminates: each step taken inside the loop either leaves it or advances
\* the loop variable, which stays below the cap, and the loop is never stuck.
C2_BoundedIterations ==
    /\ [](script \in {"bond", "spin"} =>
            /\ params <= Cap
            /\ n < Cap
            /\ params = n + 1
            /\ pc = "loop" => ENABLED Next)
    /\ [][pc = "loop" => (pc' # "loop" \/ n' = n + 1)]_vars

\* C2 witness: a bond-dissociation run that used all of its 40 steps.
C2_Witness ==
    /\ script = "bond" /\ pc = "append"
    /\ params = bond_iterations

\* The loop of the running script has been left before its maximum iteration
\* count was reached.
LeftEarly ==
    /\ \/ script = "bond" /\ pc = "append"
       \/ script = "spin" /\ pc = "report"
    /\ n + 1 < Cap

\* C3 (as stated, for the bond-dissociation loop): the loop is left before its
\* maximum iteration count is reached only when two successive energies of
\* that same run differ by less than the tolerance.  The energies of
\* iterations n - 1 and n are prev_energy and energy; there are two energies
\* of the run from n = 1 on.
C3_LeavesOnlyOnSuccessiveEnergies ==
    (LeftEarly /\ script = "bond") =>
        /\ n >= 1
        /\ Abs(energy - prev_energy) < conv_tol

\* The bond loop broke on the tape: after bs steps the energy tape[bs] was
\* within the tolerance of the previous one (0.0 for the first).
PairBondBroke(bs) ==
    BondConverged(tape[bs], IF bs = 1 THEN 0 ELSE tape[bs - 1])

SpinHasExcitations ==
    /\ script = "spin"
    /\ \/ pc \in {"init", "loop", "report"}
       \/ pc = "done"

C6_ExcitationLists ==
    SpinHasExcitations =>
        IF sector = "ground"
        THEN /\ singles = {<<0, 2>>, <<1, 3>>}
             /\ doubles = {<<0, 1, 2, 3>>}
        ELSE /\ singles = {<<1, 2>>}
             /\ doubles = {}

\* C6 witness: the script has finished both sectors.
C6_Witness ==
    /\ script = "spin" /\ sector = "excited" /\ pc = "done"
    /\ singles = {<<1, 2>>}

\* C7: active_space(10, 7, 4, 4) splits the orbitals into 3 core orbitals
\* holding the 6 non-active electrons and 4 active orbitals, disjoint from each
\* other; 2 * len(active) is 8, and so is the qubit count of the active-space
\* Hamiltonian.
C7_ActiveSpace ==
    (script = "chem" /\ pc \in {"hamiltonian_active", "done"}) =>
        /\ Range(core) \cap Range(active) = {}
        /\ Range(core) \cup Range(active) \subseteq 0..(chem_orbitals - 1)
        /\ Len(core) = 3
        /\ 2 * Len(core) = chem_electrons - chem_active_electrons
        /\ Len(active) = 4
        /\ Cardinality(Range(active)) = 4
        /\ 2 * Len(active) = 8
        /\ pc = "done" => (qubits = 8 /\ H.core = core /\ H.active = active)

\* C7 witness: the quantum-chemistry script has built the active-space
\* Hamiltonian.
C7_Witness ==
    /\ script = "chem" /\ pc = "done"
    /\ core # <<>> /\ active # <<>>

\* The running script holds the Hamiltonian of its current structure.
HasHamiltonian ==
    \/ script = "spin" /\ pc \notin {"start", "hamiltonian", "failed"}
    \/ script = "bond" /\ pc \in {"excitations", "init", "loop", "append"}

\* C8: the H2 molecule of the spin-sectors script, at (0, 0, -0.6614) and
\* (0, 0, 0.6614) bohr, gets 4 qubits, and so does every geometry of the
\* bond-dissociation scan.
C8_FourQubits ==
    /\ HasHamiltonian =>
        /\ qubits = 4
        /\ H.symbols = <<"H", "H">>
        /\ H.coordinates = coordinates
    /\ (script = "spin" /\ pc \notin {"start", "hamiltonian", "failed"}) =>
        H.coordinates = <<0, 0, 0 - 6614, 0, 0, 6614>>

\* C8 witness: the last geometry of the scan has its Hamiltonian.
C8_Witness ==
    /\ script = "bond" /\ pc = "append"
    /\ scan = Len(scan_r)
    /\ qubits = 4

\* C9: every structure a script holds, and every structure a Hamiltonian was
\* built from, has three coordinates per atomic symbol: 9 for the 3 symbols of
\* water, 6 for the 2 symbols of H2 in the spin-sectors script and in every
\* geometry of the scan.
C9_ThreeCoordinatesPerAtom ==
    /\ Len(coordinates) = 3 * Len(symbols)
    /\ \A i \in DOMAIN hams :
          Len(hams[i].coordinates) = 3 * Len(hams[i].symbols)
    /\ (script = "chem" /\ pc # "start") =>
          (Len(symbols) = 3 /\ Len(coordinates) = 9)
    /\ (script \in {"spin", "bond"} /\ symbols # <<>>) =>
          (Len(symbols) = 2 /\ Len(coordinates) = 6)

\* C9 witness: the scan has built a Hamiltonian for each of its geometries.
C9_Witness ==
    /\ script = "bond" /\ pc = "done"
    /\ Len(hams) = Len(scan_r)
    /\ Len(hams) > 1

\* The newest Hamiltonian is the only one built from its coordinates.
NewestIsOnly ==
    \A i \in 1..(Len(hams) - 1) :
        hams[i].coordinates # hams[Len(hams)].coordinates

\* C10 (as stated): in each script, exactly one Hamiltonian is constructed for
\* each molecular geometry.
C10_OncePerGeometry ==
    /\ NewestIsOnly
    /\ (pc = "done" /\ script \in {"chem", "spin"}) => Len(hams) = 1
    /\ (pc = "done" /\ script = "bond") => Len(hams) = Len(scan_r)

\* C10 (amended): the two VQE scripts construct exactly one Hamiltonian per
\* geometry; the quantum-chemistry script constructs three for its one water
\* geometry (decompose, molecular_hamiltonian, molecular_hamiltonian with the
\* active space).  A Hamiltonian is never changed: H is only ever rebound by a
\* construction, nothing is removed from or changed in the record of
\* constructed Hamiltonians, and no statement of an optimization run (its
\* initialisation, its iterations, the second spin-sector run) constructs one.
C10_Amended ==
    /\ [](/\ script \in {"bond", "spin"} => NewestIsOnly
          /\ (pc = "done" /\ script = "spin") => Len(hams) = 1
          /\ (pc = "done" /\ script = "bond") => Len(hams) = Len(scan_r)
          /\ (pc = "done" /\ script = "chem") =>
                /\ Len(hams) = 3
                /\ \A i \in 1..3 : hams[i].coordinates = coordinates)
    /\ [][ /\ \/ hams' = hams /\ H' = H /\ qubit_hamiltonian' = qubit_hamiltonian
              \/ /\ hams' = Append(hams, hams'[Len(hams')])
                 /\ \/ H' = hams'[Len(hams')] /\ qubit_hamiltonian' = qubit_hamiltonian
                    \/ qubit_hamiltonian' = hams'[Len(hams')] /\ H' = H
           /\ pc \in {"init", "loop", "report", "append"} => hams' = hams
           /\ (script = "spin" /\ hams # <<>>) => hams' = hams ]_vars

\* C10 witness: the spin-sectors script has finished its second run with the
\* one Hamiltonian it built.
C10_Witness ==
    /\ script = "spin" /\ sector = "excited" /\ pc = "done"
    /\ Len(hams) = 1
    /\ H = hams[1]

\* The bond script has failed inside geometry number scan, or in plotting.
FailedInGeometry == script = "bond" /\ pc = "failed" /\ r = <<>>

\* C11: a script that has failed on an external call executes nothing more:
\* no step is taken from the failed state, so nothing is retried and no
\* variable changes; a script reaches "done" only without any failure; and a
\* bond-dissociation scan that failed at a geometry holds energies of the
\* geometries before it only, and has no plot array.
C11_FailsOutright ==
    /\ [](FailedInGeometry =>
            /\ scan >= 1
            /\ Len(vqe_energy) = scan - 1
            /\ \A i \in DOMAIN vqe_energy : vqe_energy[i] # r_HH)
    /\ [][pc = "failed" => pc' = "failed"]_vars
    /\ [][pc' = "failed" =>
            UNCHANGED <<script, structure_vars, ham_vars, exc_vars, space_vars,
                        sector, scan, loop_vars, vqe_energy, r, pair_vars>>]_vars

\* C11 witness: the scan failed in an optimizer step of a later geometry.
C11_Witness ==
    /\ FailedInGeometry
    /\ scan >= 2
    /\ n >= 1
    /\ Len(vqe_energy) = scan - 1

\* The scan the text above the bond-dissociation loop describes: from 1.0
\* to 4.0 Bohr in steps of 0.25 Bohr.
stated_start == 10000
stated_stop == 40000
stated_step == 2500

\* The sequence start, start + step, ..., stop.
Progression(start, stop, step) ==
    [i \in 1..((stop - start) \div step + 1) |-> start + (i - 1) * step]

\* C12: the distances the scan visits, and the plot array r, run from 1.0 to
\* 4.0 Bohr in steps of 0.25 Bohr.
C12_ScanFromOneToFour ==
    /\ (script = "bond" /\ scan >= 1) =>
            /\ scan <= Len(Progression(stated_start, stated_stop, stated_step))
            /\ r_HH = Progression(stated_start, stated_stop, stated_step)[scan]
    /\ (script = "bond" /\ r # <<>>) =>
            r = Progression(stated_start, stated_stop, stated_step)

\* C13: the first atom of every geometry of the scan is at the origin and
\* the second atom is on the x axis at distance r_HH.
C13_SecondAtomOnX ==
    (script = "bond" /\ scan >= 1 /\ coordinates # <<>>) =>
        /\ coordinates[1] = 0 /\ coordinates[2] = 0 /\ coordinates[3] = 0
        /\ coordinates[4] = r_HH
        /\ coordinates[5] = 0 /\ coordinates[6] = 0

\* The bond-dissociation script holds the excitation lists of the geometry.
BondHasExcitations == script = "bond" /\ pc \in {"init", "loop", "append"}

\* The occupation states one excitation of the lists makes of the
\* Hartree-Fock state.
Excited ==
    UNION {Move(hf_state(bond_active_electrons, qubits), {e[1]}, {e[2]})
              : e \in singles}
    \cup UNION {Move(hf_state(bond_active_electrons, qubits), {e[1], e[2]}, {e[3], e[4]})
              : e \in doubles}

C15_CircuitAddsAllExcitations ==
    BondHasExcitations =>
        /\ {g.wires : g \in Gates("SingleExcitation")} = singles
        /\ {g.wires : g \in Gates("DoubleExcitation")} = doubles
        /\ Cardinality(singles) = 2
        /\ Cardinality(doubles) = 1
        /\ Len(circuit) = 2 + Cardinality(singles) + Cardinality(doubles)
        /\ {g.wires[1] : g \in Gates("PauliX")} = {0, 1}
        /\ Prepared = {hf_state(bond_active_electrons, qubits)}

\* C15 witness: the circuit is built in the last geometry of the scan.
C15_Witness ==
    /\ BondHasExcitations
    /\ pc = "init"
    /\ scan = Len(scan_r)
    /\ singles = {<<0, 2>>, <<1, 3>>}

\* The scan has visited all its geometries.
ScanComplete == script = "bond" /\ r # <<>>

\* C16: while the scan runs, vqe_energy holds the energies of the geometries
\* finished so far, in visiting order; a geometry is left only by appending
\* its energy, whether its loop broke or ran out of iterations; after the
\* scan vqe_energy and r have the same length and the i-th energy is the
\* one computed at the i-th distance of r.
C16_OneEnergyPerGeometry ==
    /\ [](script = "bond" =>
            /\ Len(vqe_energy) \in {scan - 1, scan}
            /\ \A i \in DOMAIN vqe_energy : vqe_energy[i] = scan_r[i])
    /\ [](ScanComplete =>
            /\ Len(vqe_energy) = Len(r)
            /\ Len(vqe_energy) = Len(hams)
            /\ \A i \in DOMAIN r : vqe_energy[i] = r[i])
    /\ [][(script = "bond" /\ pc = "loop" /\ pc' \notin {"loop", "failed"}) =>
            pc' = "append"]_vars
    /\ [][(script = "bond" /\ scan' # scan) => Len(vqe_energy) = scan]_vars

\* C16 witness: the scan is complete although the loop of its last geometry
\* used all its iterations without converging.
C16_Witness ==
    /\ ScanComplete
    /\ pc = "done"
    /\ n = bond_iterations - 1
    /\ ~broke
    /\ Len(vqe_energy) = Len(scan_r)

\* The loop of a geometry of the scan is about to make its first iteration.
BondLoopEntry == script = "bond" /\ pc = "loop" /\ n = 0 - 1

\* C17: the loop of every geometry is entered with params the zero vector
\* of length 3 and prev_energy = 0.0; its first test compares the cost at
\* these parameters with 0.0, whatever the energy left by the geometry
\* before; every later test compares with the energy of the iteration
\* before it in the same geometry; the loop changes nothing of the scan but
\* its own variables.
C17_FreshStart ==
    /\ [](BondLoopEntry => params = 0 /\ nparams = 3 /\ prev_energy = 0)
    /\ []((script = "bond" /\ pc = "loop" /\ n >= 0) => prev_energy = energy)
    /\ [][(BondLoopEntry /\ pc' # "failed") =>
            /\ energy' = cost
            /\ (pc' = "append") = (Abs(cost) < bond_tol)]_vars
    /\ [][(script = "bond" /\ pc \in {"init", "loop"}) =>
            UNCHANGED <<vqe_energy, scan, structure_vars, ham_vars, exc_vars>>]_vars

\* C17 witness: a later geometry's loop is entered while energy still holds
\* the non-zero energy of the geometry before.
C17_Witness ==
    /\ BondLoopEntry
    /\ scan >= 2
    /\ energy # 0
    /\ prev_energy = 0
    /\ params = 0

\* C18: the energy a run reports is the cost at the parameters it holds
\* when its loop has ended, in the bond-dissociation script (the energy
\* appended to vqe_energy) and in the spin-sectors script.
C18_ReportsCostAtFinalParams ==
    /\ (script = "bond" /\ pc = "append") => energy = cost
    /\ (script = "spin" /\ pc = "report") => energy = cost

====
